---- MODULE Spec2Model ----
(***************************************************************************)
(* A model of the nostrd relay: the event store (src/src/db.rs), the       *)
(* per-connection subscription state (src/src/conn.rs) and the tasks that  *)
(* couple them (db_writer, db_query, nostr_server in src/src/main.rs).     *)
(*                                                                         *)
(* Option<T> values of the source are modelled as sets with at most one    *)
(* element: {} is None and {x} is Some(x).  The same encoding is used for  *)
(* the NULL of a LEFT JOIN.                                                *)
(***************************************************************************)
EXTENDS Integers, Sequences, FiniteSets, TLC

----------------------------------------------------------------------------
\* Bounds of the model.

\* Number of distinct events the clients of the relay can submit.
NumEvents == 2
\* Number of distinct events written in the store-level specification.
NumStoreEvents == 5
\* Number of filters a store-level query chooses from.
NumStoreFilters == 6
\* Largest number of filters in a store-level subscription.
MaxFilters == 2
\* Number of connections.
NumConns == 2
\* Number of frames with an effect that the clients send, over all
\* connections, in the specification of the whole relay and in the one of
\* its steady state.
MaxFrames == 2
MaxLiveFrames == 3
\* Largest schema version of a store file the writer is started on.
MaxVersion == 3
\* Number of frames of the connection in the specification of its frames.
MaxReqFrames == 5
\* Number of subscription ids a REQ chooses from, in the two specifications,
\* and number of filters.
NumReqIds == 1
NumLiveIds == 2
NumReqFilters == 2
\* limits.event_persist_buffer: the depth of the ingest channel.
event_persist_buffer == 1
\* limits.broadcast_buffer: the depth of the broadcast hub.
broadcast_buffer == 1
\* The depth of a connection's result channel (256 in nostr_server), scaled.
query_buffer == 1

\* ClientConn::max_subs (32 in ClientConn::new), scaled to keep the
\* subscription sets small.
max_subs == 3
MAX_SUBSCRIPTION_ID_LEN == 256

----------------------------------------------------------------------------
\* The events.  An event is identified by its id (the content hash), which
\* determines every other attribute.

Event(pubkey, kind, created_at, etags, ptags) ==
    [pubkey |-> pubkey, kind |-> kind, created_at |-> created_at,
     etags |-> etags, ptags |-> ptags]

EventTable ==
    << Event(1, 0, 1, << >>, << >>),      \* M1: metadata of author 1
       Event(1, 0, 2, << >>, << >>),      \* M2: newer metadata of author 1
       Event(1, 3, 1, << >>, <<1, 1>>),   \* contacts of author 1
       Event(1, 1, 1, <<1, 2>>, <<2>>),   \* a note with two e tags and a p tag
       Event(1, 0, 2, << >>, << >>),      \* metadata with the created_at of M2
       Event(1, 3, 2, <<3>>, << >>),      \* newer contacts of author 1
       Event(2, 0, 1, << >>, << >>),      \* metadata of author 2
       Event(2, 1, 2, <<1>>, <<1>>) >>    \* a note of author 2

Ev(i) == [id |-> i] @@ EventTable[i]

Events == 1..NumEvents
StoreEvents == 1..NumStoreEvents

----------------------------------------------------------------------------
\* Filters and subscriptions (protocol::ReqFilter, protocol::Subscription).

ReqFilter(ids, authors, kinds, events, pubkeys, since, until) ==
    [ids |-> ids, authors |-> authors, kinds |-> kinds, events |-> events,
     pubkeys |-> pubkeys, since |-> since, until |-> until]

FilterTable ==
    << ReqFilter({}, {}, {}, {}, {}, {}, {}),            \* every field absent
       ReqFilter({}, {{1}}, {{0}}, {}, {}, {}, {}),      \* kinds [0], authors [1]
       ReqFilter({{1}}, {}, {}, {}, {}, {}, {}),         \* ids [M1]
       ReqFilter({}, {}, {}, {{1, 2}}, {{2}}, {}, {}),   \* #e [1, 2], #p [2]
       ReqFilter({}, {}, {}, {}, {}, {1}, {1}),          \* since 1, until 1
       ReqFilter({}, {{}}, {}, {}, {}, {}, {}),          \* authors []
       ReqFilter({}, {}, {{1, 3}}, {}, {}, {}, {}),      \* kinds [1, 3]
       ReqFilter({}, {}, {}, {}, {}, {1}, {}),           \* since 1
       ReqFilter({}, {{}}, {}, {}, {}, {}, {2}),         \* authors [], until 2
       ReqFilter({}, {}, {}, {}, {{1}}, {}, {}) >>       \* #p [1]

StoreFilters == {FilterTable[i] : i \in 1..NumStoreFilters}

SeqsUpTo(S, n) == UNION {[1..k -> S] : k \in 1..n}

\* A subscription is an id and a non-empty list of filters.
Subscription(id, filters) == [id |-> id, filters |-> filters]

\* The subscription ids are numbers; the two above max_subs + 1 stand for an
\* id of the greatest accepted length and for an id one byte longer.
NumSubIds == max_subs + 1
MaxLenSubId == NumSubIds + 1
LongSubId == NumSubIds + 2
SubIdLen(id) ==
    IF id <= NumSubIds THEN id
    ELSE MAX_SUBSCRIPTION_ID_LEN + (id - MaxLenSubId)

\* The subscriptions of the store-level queries, of the connection-level
\* calls and of the REQ frames.
ReqFilters == {<<FilterTable[i]>> : i \in 1..NumReqFilters}
ConnSubscriptions ==
    {Subscription(id, fs) : id \in 1..LongSubId, fs \in ReqFilters}
ReqSubIds == 1..NumReqIds
LiveSubIds == 1..NumLiveIds
LiveFilters == {<<FilterTable[1]>>, <<FilterTable[3]>>}
LiveSubscriptions ==
    {Subscription(id, fs) : id \in LiveSubIds, fs \in LiveFilters}
ReqSubscriptions ==
    {Subscription(id, fs) : id \in ReqSubIds, fs \in ReqFilters}
        \cup {Subscription(LongSubId, <<FilterTable[1]>>)}

Conns == 1..NumConns

\* Maps with a finite domain (HashMap).
Put(m, k, v) == [x \in DOMAIN m \cup {k} |-> IF x = k THEN v ELSE m[x]]
Remove(m, k) == [x \in DOMAIN m \ {k} |-> m[x]]
EmptyMap == [x \in {} |-> 0]

RECURSIVE Perms(_)
Perms(S) ==
    IF S = {} THEN {<< >>}
    ELSE UNION {{<<x>> \o sq : sq \in Perms(S \ {x})} : x \in S}

----------------------------------------------------------------------------
VARIABLES
    event,          \* table event: sequence of rows, the rowid is the index
    event_ref,      \* table event_ref: sequence of rows
    pubkey_ref,     \* table pubkey_ref: sequence of rows
    user_version,   \* the schema version the store file records
    wpc,            \* db_writer: its position
    wev,            \* db_writer: the event of its latest write_event
    wres,           \* db_writer: the result of its latest write_event
    qres,           \* store level: the latest query, its filters and rows
    ingest,         \* the ingest channel (event_tx, event_rx)
    hub,            \* the events sent on the broadcast hub, in order
    shutdown,       \* whether the shutdown signal has been sent
    cpc,            \* nostr_server: the position of each connection task
    cev,            \* nostr_server: the event a task was last suspended with
    subs,           \* ClientConn::subscriptions of each connection
    running_queries,\* nostr_server: sub_id -> cancellation handle (a query)
    cursor,         \* bcast_rx: how many hub events each connection is past
    lagged,         \* bcast_rx: whether the connection has lagged on the hub
    sd_rx,          \* shutdown: whether the task's receiver gets the signal
    query_rx,       \* the result channel of each connection
    out,            \* the responses each connection has sent to its client
    queries,        \* the db_query workers, in the order they were started
    frames,         \* the number of frames the clients have yet to send
    sres            \* connection level: the latest subscribe call, its result

store == [event |-> event, event_ref |-> event_ref, pubkey_ref |-> pubkey_ref]

storeVars == <<event, event_ref, pubkey_ref, user_version>>
writerVars == <<wpc, wev, wres>>
connVars == <<cpc, cev, subs, running_queries, cursor, lagged, sd_rx,
              query_rx, out, frames, sres>>
vars == <<event, event_ref, pubkey_ref, user_version, wpc, wev, wres, qres,
          ingest, hub, shutdown, cpc, cev, subs, running_queries, cursor, lagged, sd_rx,
          query_rx, out, queries, frames, sres>>

----------------------------------------------------------------------------
\* write_event

HasEvent(S, id) == \E i \in 1..Len(S.event) : S.event[i].event_hash = id

\* An UPDATE without id!=?, which hides the new row as well.
HideOlderSelf(rows, ev_id, kind, author, created_at) ==
    [i \in 1..Len(rows) |->
        IF /\ rows[i].kind = kind
           /\ rows[i].author = author
           /\ rows[i].created_at <= created_at
           /\ rows[i].hidden # TRUE
        THEN [rows[i] EXCEPT !.hidden = TRUE]
        ELSE rows[i]]

\* UPDATE event SET hidden=TRUE WHERE id!=? AND kind=? AND author=?
\*   AND created_at <= ? and hidden!=TRUE
HideOlder(rows, ev_id, kind, author, created_at) ==
    [i \in 1..Len(rows) |->
        IF /\ i # ev_id
           /\ rows[i].kind = kind
           /\ rows[i].author = author
           /\ rows[i].created_at <= created_at
           /\ rows[i].hidden # TRUE
        THEN [rows[i] EXCEPT !.hidden = TRUE]
        ELSE rows[i]]

\* The rows of a reference table added for the tags of one event.
RefRows(ev_id, tags) ==
    [i \in 1..Len(tags) |-> [event_id |-> ev_id, referenced |-> tags[i]]]

\* The store after the insert of the event row, of its reference rows and
\* after the hiding of the replaced events.
Inserted(S, e) ==
    LET ev_id == Len(S.event) + 1
        row == [event_hash |-> e.id, created_at |-> e.created_at,
                kind |-> e.kind, author |-> e.pubkey,
                content |-> e.id, hidden |-> FALSE]
        ins == Append(S.event, row)
        hid == IF e.kind = 0
               THEN HideOlder(ins, ev_id, 0, e.pubkey, e.created_at)
               ELSE IF e.kind = 3
               THEN HideOlder(ins, ev_id, 3, e.pubkey, e.created_at)
               ELSE ins
    IN  [event |-> hid,
         event_ref |-> S.event_ref \o RefRows(ev_id, e.etags),
         pubkey_ref |-> S.pubkey_ref \o RefRows(ev_id, e.ptags)]

\* A write_event that goes on after INSERT OR IGNORE has ignored the row:
\* ev_id is then the rowid of the latest insert.
write_event_no_dup_check(S, e) ==
    IF HasEvent(S, e.id)
    THEN LET ev_id == Len(S.event)
             hid == IF e.kind \in {0, 3}
                    THEN HideOlder(S.event, ev_id, e.kind, e.pubkey,
                                   e.created_at)
                    ELSE S.event
         IN  [store |-> [event |-> hid,
                         event_ref |-> S.event_ref \o RefRows(ev_id, e.etags),
                         pubkey_ref |-> S.pubkey_ref \o RefRows(ev_id, e.ptags)],
              count |-> 0]
    ELSE [store |-> Inserted(S, e), count |-> 1]

\* The committed store and the count that write_event returns.
write_event(S, e) ==
    IF HasEvent(S, e.id)
    THEN \* INSERT OR IGNORE inserts nothing; the transaction is dropped.
         [store |-> S, count |-> 0]
    ELSE [store |-> Inserted(S, e), count |-> 1]

\* The number of statements of the transaction of write_event, the commit
\* not counted: the insert of the event row alone if it is ignored, else the
\* insert, one insert for each tag and the update of a replaceable kind.
Statements(S, e) ==
    IF HasEvent(S, e.id)
    THEN 1
    ELSE 1 + Len(e.etags) + Len(e.ptags) + (IF e.kind \in {0, 3} THEN 1 ELSE 0)

\* The store as the transaction of write_event sees it after the first n of
\* its statements.
Uncommitted(S, e, n) ==
    IF n = 0 \/ HasEvent(S, e.id)
    THEN S
    ELSE LET ev_id == Len(S.event) + 1
             all == Inserted(S, e)
             ne == IF n - 1 < Len(e.etags) THEN n - 1 ELSE Len(e.etags)
             np == IF n - 1 - Len(e.etags) < 0 THEN 0
                   ELSE IF n - 1 - Len(e.etags) < Len(e.ptags)
                   THEN n - 1 - Len(e.etags) ELSE Len(e.ptags)
         IN  [event |-> IF n = Statements(S, e)
                        THEN all.event
                        ELSE Append(S.event, all.event[ev_id]),
              event_ref |->
                  S.event_ref \o SubSeq(RefRows(ev_id, e.etags), 1, ne),
              pubkey_ref |->
                  S.pubkey_ref \o SubSeq(RefRows(ev_id, e.ptags), 1, np)]

\* A write_event whose failed transaction is committed as far as it got.
write_event_error_kept(S, e, n) ==
    [store |-> Uncommitted(S, e, n), count |-> 0 - (n + 1)]

\* write_event when the statement after its first n statements fails (the
\* commit, when all have succeeded): the error is returned by `?`, and the
\* transaction, dropped without a commit, is rolled back.  The count -(n+1)
\* stands for the error.
write_event_error(S, e, n) ==
    [store |-> S, count |-> 0 - (n + 1)]

----------------------------------------------------------------------------
\* query_from_sub and the execution of its query

HexDigits == {"0", "1", "2", "3", "4", "5", "6", "7", "8", "9",
              "a", "b", "c", "d", "e", "f"}
HexOf == <<"0", "1", "2", "3", "4", "5", "6", "7", "8", "9",
           "a", "b", "c", "d", "e", "f">>

\* ToHex of a typed key or hash: two digits for each byte.
to_hex(x) == <<HexOf[((x \div 16) % 16) + 1], HexOf[(x % 16) + 1]>>

is_hex(s) == \A i \in 1..Len(s) : s[i] \in HexDigits

\* The values of a list field that remain in its IN (...) clause.
Escaped(list) == {x \in list : is_hex(to_hex(x))}

\* The rows of "event e LEFT JOIN event_ref er LEFT JOIN pubkey_ref pr" for
\* the event row i: one row for each pair of a row of event_ref and a row of
\* pubkey_ref of the event, given by their rowids; the rowid 0 stands for the
\* NULL row of an event without a row in the table.
Refs(table, i) ==
    LET ks == {k \in 1..Len(table) : table[k].event_id = i}
    IN  IF ks = {} THEN {0} ELSE ks

Joined(S, i) == Refs(S.event_ref, i) \X Refs(S.pubkey_ref, i)

\* The column referenced_event or referenced_pubkey of a joined row.
Referenced(table, k) == IF k = 0 THEN {} ELSE {table[k].referenced}

\* The components of a filter without its until clause.
FilterComponentsNoUntil(f, row, er, pr) ==
    /\ f.authors # {} => \E l \in f.authors : row.author \in Escaped(l)
    /\ f.kinds # {} => \E l \in f.kinds : row.kind \in l
    /\ f.ids # {} => \E l \in f.ids : row.event_hash \in Escaped(l)
    /\ f.events # {} => \E l \in f.events : er # {} /\ er \subseteq Escaped(l)
    /\ f.pubkeys # {} => \E l \in f.pubkeys : pr # {} /\ pr \subseteq Escaped(l)
    /\ f.since # {} => \E t \in f.since : row.created_at > t

\* The components of one filter, joined by AND, for a joined row.
FilterComponents(f, row, er, pr) ==
    /\ f.authors # {} => \E l \in f.authors : row.author \in Escaped(l)
    /\ f.kinds # {} => \E l \in f.kinds : row.kind \in l
    /\ f.ids # {} => \E l \in f.ids : row.event_hash \in Escaped(l)
    /\ f.events # {} => \E l \in f.events : er # {} /\ er \subseteq Escaped(l)
    /\ f.pubkeys # {} => \E l \in f.pubkeys : pr # {} /\ pr \subseteq Escaped(l)
    /\ f.since # {} => \E t \in f.since : row.created_at > t
    /\ f.until # {} => \E t \in f.until : row.created_at < t

NoComponents(f) ==
    /\ f.authors = {} /\ f.kinds = {} /\ f.ids = {} /\ f.events = {}
    /\ f.pubkeys = {} /\ f.since = {} /\ f.until = {}

\* A filter clause without the substitution of hidden!=TRUE.
FilterClauseNoHidden(f, row, er, pr) == FilterComponents(f, row, er, pr)

\* The clause of one filter.
FilterClause(f, row, er, pr) ==
    IF ~NoComponents(f)
    THEN FilterComponents(f, row, er, pr)
    ELSE row.hidden # TRUE

\* The WHERE clause: the filter clauses joined by OR.
query_from_sub(filters, row, er, pr) ==
    \E k \in 1..Len(filters) : FilterClause(filters[k], row, er, pr)

\* The joined rows that satisfy the WHERE clause.
Where(S, filters) ==
    UNION {{<<i, j[1], j[2]>> : j \in
               {j \in Joined(S, i) :
                   query_from_sub(filters, S.event[i],
                                  Referenced(S.event_ref, j[1]),
                                  Referenced(S.pubkey_ref, j[2]))}} :
           i \in 1..Len(S.event)}

\* SELECT DISTINCT(e.content): the rowids of the events the query of a
\* subscription selects.  The content of an event holds its id, and
\* event_hash is unique, so that distinct contents are distinct rows.
Selected(S, filters) == {r[1] : r \in Where(S, filters)}

\* ORDER BY created_at ASC leaves the order of equal created_at open.
RECURSIVE Ordered(_, _)
Ordered(S, rows) ==
    IF rows = {}
    THEN {<< >>}
    ELSE LET first == {i \in rows : \A j \in rows :
                          S.event[i].created_at <= S.event[j].created_at}
         IN  UNION {{<<i>> \o sq : sq \in Ordered(S, rows \ {i})} : i \in first}

\* A query without DISTINCT: one result for each joined row.
RECURSIVE OrderedJoined(_, _)
OrderedJoined(S, rows) ==
    IF rows = {}
    THEN {<< >>}
    ELSE LET first == {r \in rows : \A x \in rows :
                          S.event[r[1]].created_at <= S.event[x[1]].created_at}
         IN  UNION {{<<r[1]>> \o sq : sq \in OrderedJoined(S, rows \ {r})} :
                    r \in first}

QueryResultsAll(S, filters) ==
    {[k \in 1..Len(sq) |-> S.event[sq[k]].content] :
        sq \in OrderedJoined(S, Where(S, filters))}

\* The results a query can produce: SELECT DISTINCT(e.content) ... ORDER BY.
QueryResults(S, filters) ==
    {[k \in 1..Len(sq) |-> S.event[sq[k]].content] :
        sq \in Ordered(S, Selected(S, filters))}

----------------------------------------------------------------------------
\* Connection state (ClientConn)

\* Subscription::interested_in_event: an event matches a subscription when it
\* matches one of its filters, and a filter when it matches every present
\* field.
InSeq(x, sq) == \E k \in 1..Len(sq) : sq[k] = x

FilterMatches(f, e) ==
    /\ f.ids # {} => \E l \in f.ids : e.id \in l
    /\ f.authors # {} => \E l \in f.authors : e.pubkey \in l
    /\ f.kinds # {} => \E l \in f.kinds : e.kind \in l
    /\ f.events # {} => \E l \in f.events : \E x \in l : InSeq(x, e.etags)
    /\ f.pubkeys # {} => \E l \in f.pubkeys : \E x \in l : InSeq(x, e.ptags)
    /\ f.since # {} => \E t \in f.since : e.created_at > t
    /\ f.until # {} => \E t \in f.until : e.created_at < t

interested_in_event(filters, e) ==
    \E k \in 1..Len(filters) : FilterMatches(filters[k], e)

\* A get_matching_subscriptions that returns every registered id.
get_all_subscriptions(S, e) == DOMAIN S

\* The ids of the registered subscriptions that match the event.
get_matching_subscriptions(S, e) ==
    {id \in DOMAIN S : interested_in_event(S[id], e)}

\* A subscribe without the check of the number of subscriptions.
subscribe_no_max(S, s) ==
    IF SubIdLen(s.id) > MAX_SUBSCRIPTION_ID_LEN
    THEN [subs |-> S, res |-> "SubIdMaxLengthError"]
    ELSE [subs |-> Put(S, s.id, s.filters), res |-> "Ok"]

\* A subscribe that rejects an id of MAX_SUBSCRIPTION_ID_LEN bytes as well.
subscribe_len_inclusive(S, s) ==
    IF SubIdLen(s.id) >= MAX_SUBSCRIPTION_ID_LEN
    THEN [subs |-> S, res |-> "SubIdMaxLengthError"]
    ELSE IF s.id \in DOMAIN S
    THEN [subs |-> Put(Remove(S, s.id), s.id, s.filters), res |-> "Ok"]
    ELSE IF Cardinality(DOMAIN S) >= max_subs
    THEN [subs |-> S, res |-> "SubMaxExceededError"]
    ELSE [subs |-> Put(S, s.id, s.filters), res |-> "Ok"]

\* A subscribe that checks the room before it looks for the id.
subscribe_room_first(S, s) ==
    IF SubIdLen(s.id) > MAX_SUBSCRIPTION_ID_LEN
    THEN [subs |-> S, res |-> "SubIdMaxLengthError"]
    ELSE IF Cardinality(DOMAIN S) >= max_subs
    THEN [subs |-> S, res |-> "SubMaxExceededError"]
    ELSE [subs |-> Put(S, s.id, s.filters), res |-> "Ok"]

\* The subscriptions after subscribe(s) and its result.
subscribe(S, s) ==
    IF SubIdLen(s.id) > MAX_SUBSCRIPTION_ID_LEN
    THEN [subs |-> S, res |-> "SubIdMaxLengthError"]
    ELSE IF s.id \in DOMAIN S
    THEN [subs |-> Put(Remove(S, s.id), s.id, s.filters), res |-> "Ok"]
    ELSE IF Cardinality(DOMAIN S) >= max_subs
    THEN [subs |-> S, res |-> "SubMaxExceededError"]
    ELSE [subs |-> Put(S, s.id, s.filters), res |-> "Ok"]

unsubscribe(S, id) == Remove(S, id)

----------------------------------------------------------------------------
\* The state after construction: an empty store at the current schema
\* version, the writer at the top of its loop, no connection yet.

NoQuery == [filters |-> << >>, rows |-> << >>]

\* No subscribe call yet.  known tells whether the id of the call was
\* registered when subscribe was called.
NoCall == [id |-> 0, filters |-> << >>, known |-> FALSE, res |-> "none"]

EmptyStore == [event |-> << >>, event_ref |-> << >>, pubkey_ref |-> << >>]

\* The store file outlives the process: at startup it holds what earlier
\* runs of the writer have written, here nothing or every event.
RECURSIVE Written(_)
Written(ids) ==
    IF ids = << >> THEN EmptyStore
    ELSE write_event(Written(SubSeq(ids, 1, Len(ids) - 1)),
                     Ev(ids[Len(ids)])).store

InitialStores == {EmptyStore, Written([i \in Events |-> i])}

\* A store file of schema version 1: its event table has no column hidden
\* (NULL once the column is added) and no event was ever hidden.
V1Row(i) ==
    [event_hash |-> i, created_at |-> Ev(i).created_at, kind |-> Ev(i).kind,
     author |-> Ev(i).pubkey, content |-> i, hidden |-> "NULL"]

V1Store ==
    [event |-> <<V1Row(3), V1Row(1)>>,
     event_ref |-> RefRows(1, Ev(3).etags),
     pubkey_ref |-> RefRows(1, Ev(3).ptags)]

\* upgrade_db: the store after the upgrade from the schema version found.
upgrade_db(version, S) ==
    IF version = 0
    THEN EmptyStore
    ELSE IF version = 1
    THEN [S EXCEPT !.event =
             [i \in 1..Len(S.event) |-> [S.event[i] EXCEPT !.hidden = FALSE]]]
    ELSE S

\* The stores the writer can find at startup, after upgrade_db.
StartupStores ==
    {upgrade_db(0, EmptyStore), upgrade_db(1, V1Store)}
        \cup {upgrade_db(2, S) : S \in InitialStores}

Tasks ==
    /\ user_version = 2
    /\ wpc = "top"
    /\ wev = 0
    /\ wres = 0
    /\ qres = NoQuery
    /\ ingest = << >>
    /\ hub = << >>
    /\ shutdown = FALSE
    /\ cpc = [c \in Conns |-> "none"]
    /\ cev = [c \in Conns |-> 0]
    /\ subs = [c \in Conns |-> EmptyMap]
    /\ running_queries = [c \in Conns |-> EmptyMap]
    /\ cursor = [c \in Conns |-> 0]
    /\ lagged = [c \in Conns |-> FALSE]
    /\ sd_rx = [c \in Conns |-> FALSE]
    /\ query_rx = [c \in Conns |-> << >>]
    /\ out = [c \in Conns |-> << >>]
    /\ queries = << >>
    /\ frames = MaxFrames
    /\ sres = NoCall

Init ==
    /\ \E S \in InitialStores :
          /\ event = S.event
          /\ event_ref = S.event_ref
          /\ pubkey_ref = S.pubkey_ref
    /\ Tasks

\* The state after construction with any store that upgrade_db can leave.
InitStore ==
    /\ \E S \in StartupStores :
          /\ event = S.event
          /\ event_ref = S.event_ref
          /\ pubkey_ref = S.pubkey_ref
    /\ Tasks

----------------------------------------------------------------------------
\* The store-level specification: write_event and queries applied to the
\* store in any order.

StoreWrite(i) ==
    LET r == write_event(store, Ev(i))
    IN  /\ event' = r.store.event
        /\ event_ref' = r.store.event_ref
        /\ pubkey_ref' = r.store.pubkey_ref
        /\ user_version' = user_version
        /\ wev' = i
        /\ wres' = r.count
        /\ qres' = NoQuery
        /\ UNCHANGED <<wpc, ingest, hub, shutdown, connVars, queries>>

\* A query on the current store; its result is kept until the next write.
StoreQuery(filters) ==
    /\ qres = NoQuery
    /\ \E rows \in QueryResults(store, filters) :
          qres' = [filters |-> filters, rows |-> rows]
    /\ wev' = 0
    /\ wres' = 0
    /\ UNCHANGED <<storeVars, wpc, ingest, hub, shutdown, connVars, queries>>

NextStore ==
    \/ \E i \in StoreEvents : StoreWrite(i)
    \/ \E filters \in SeqsUpTo(StoreFilters, MaxFilters) : StoreQuery(filters)

SpecStore == InitStore /\ [][NextStore]_vars

----------------------------------------------------------------------------
\* The connection-level specification: subscribe and unsubscribe called on
\* the state of one connection in any order.

ConnSubscribe(s) ==
    /\ subs' = [subs EXCEPT ![1] = subscribe(subs[1], s).subs]
    /\ sres' = [id |-> s.id, filters |-> s.filters,
                known |-> s.id \in DOMAIN subs[1],
                res |-> subscribe(subs[1], s).res]
    /\ UNCHANGED <<storeVars, writerVars, qres, ingest, hub, shutdown, cpc,
                   cev, running_queries, cursor, lagged, sd_rx, query_rx,
                   out, queries, frames>>

ConnUnsubscribe(id) ==
    /\ subs' = [subs EXCEPT ![1] = unsubscribe(subs[1], id)]
    /\ sres' = NoCall
    /\ UNCHANGED <<storeVars, writerVars, qres, ingest, hub, shutdown, cpc,
                   cev, running_queries, cursor, lagged, sd_rx, query_rx,
                   out, queries, frames>>

NextConn ==
    \/ \E s \in ConnSubscriptions : ConnSubscribe(s)
    \/ \E id \in 1..LongSubId : ConnUnsubscribe(id)

SpecConn == Init /\ [][NextConn]_vars

----------------------------------------------------------------------------
\* db_writer

\* The top of the writer's loop: shutdown.try_recv().  The event and the
\* result of the previous iteration are gone.
WriterCheckShutdown ==
    /\ wpc = "top"
    /\ wpc' = IF shutdown THEN "done" ELSE "recv"
    /\ wev' = 0
    /\ wres' = 0
    /\ UNCHANGED <<storeVars, qres, ingest, hub, shutdown, connVars, queries>>

\* A db_writer that sends a duplicate event on the hub as well.
WriterWriteAlwaysSend ==
    /\ wpc = "recv"
    /\ ingest # << >>
    /\ LET r == write_event(store, Ev(Head(ingest)))
       IN  /\ event' = r.store.event
           /\ event_ref' = r.store.event_ref
           /\ pubkey_ref' = r.store.pubkey_ref
           /\ user_version' = user_version
           /\ wres' = r.count
           /\ wpc' = "send"
    /\ wev' = Head(ingest)
    /\ ingest' = Tail(ingest)
    /\ UNCHANGED <<qres, hub, shutdown, connVars, queries>>

\* event_rx.blocking_recv() returns an event and write_event commits it or
\* finds it to be a duplicate.  main keeps a sender of the ingest channel for
\* as long as the server runs, so that blocking_recv does not return None.
WriterWrite ==
    /\ wpc = "recv"
    /\ ingest # << >>
    /\ LET r == write_event(store, Ev(Head(ingest)))
       IN  /\ event' = r.store.event
           /\ event_ref' = r.store.event_ref
           /\ pubkey_ref' = r.store.pubkey_ref
           /\ user_version' = user_version
           /\ wres' = r.count
           /\ wpc' = IF r.count = 0 THEN "top" ELSE "send"
    /\ wev' = Head(ingest)
    /\ ingest' = Tail(ingest)
    /\ UNCHANGED <<qres, hub, shutdown, connVars, queries>>

\* write_event fails: its transaction is rolled back and the event dropped.
WriterWriteError ==
    /\ wpc = "recv"
    /\ ingest # << >>
    /\ \E n \in 0..Statements(store, Ev(Head(ingest))) :
          LET r == write_event_error(store, Ev(Head(ingest)), n)
          IN  /\ event' = r.store.event
              /\ event_ref' = r.store.event_ref
              /\ pubkey_ref' = r.store.pubkey_ref
              /\ user_version' = user_version
              /\ wres' = r.count
    /\ wev' = Head(ingest)
    /\ wpc' = "top"
    /\ ingest' = Tail(ingest)
    /\ UNCHANGED <<qres, hub, shutdown, connVars, queries>>

\* A db_writer that leaves out bcast_tx.send.
WriterSendNothing ==
    /\ wpc = "send"
    /\ wpc' = "top"
    /\ UNCHANGED <<storeVars, wev, wres, qres, ingest, hub, shutdown, connVars,
                   queries>>

\* A hub that hands out the latest event first.
WriterSendFront ==
    /\ wpc = "send"
    /\ hub' = <<wev>> \o hub
    /\ wpc' = "top"
    /\ UNCHANGED <<storeVars, wev, wres, qres, ingest, shutdown, connVars,
                   queries>>

\* bcast_tx.send(event) after a successful insert.
WriterSend ==
    /\ wpc = "send"
    /\ hub' = Append(hub, wev)
    /\ wpc' = "top"
    /\ UNCHANGED <<storeVars, wev, wres, qres, ingest, shutdown, connVars,
                   queries>>

\* ctrl_c_shutdown.send(()) in main.
SendShutdown ==
    /\ ~shutdown
    /\ shutdown' = TRUE
    /\ UNCHANGED <<storeVars, writerVars, qres, ingest, hub, connVars,
                   queries>>

----------------------------------------------------------------------------
\* The writer alone: the events arrive on the ingest channel from any
\* connection task.

\* event_tx.send(e) of some connection task completes.
Ingest(i) ==
    /\ frames > 0
    /\ wpc \notin {"done", "failed"}
    /\ Len(ingest) < event_persist_buffer
    /\ ingest' = Append(ingest, i)
    /\ frames' = frames - 1
    /\ UNCHANGED <<storeVars, writerVars, qres, hub, shutdown, cpc, cev, subs,
                   running_queries, cursor, lagged, sd_rx, sres, query_rx, out,
                   queries>>

NextWriter ==
    \/ WriterCheckShutdown
    \/ WriterWrite
    \/ WriterWriteError
    \/ WriterSend
    \/ SendShutdown
    \/ \E i \in StoreEvents : Ingest(i)

SpecWriter == Init /\ [][NextWriter]_vars

\* The blocking thread of the writer runs whenever it can take a step.
Writer == WriterCheckShutdown \/ WriterWrite \/ WriterWriteError \/ WriterSend

FairSpecWriter == SpecWriter /\ WF_vars(Writer)

----------------------------------------------------------------------------
\* The start of the writer: it opens the store file it finds, of any schema
\* version, and upgrades it before it enters its loop.  Its position is
\* "open" until upgrade_db has returned and "failed" once upgrade_db has
\* panicked; the ingest channel takes events from the start.

\* The store files of a schema version: none written yet (version 0), a
\* file of version 1, and the files the writer leaves at version 2 or, for
\* a newer relay, at a newer version.
OpenStores(v) ==
    IF v = 0 THEN {EmptyStore}
    ELSE IF v = 1 THEN {V1Store}
    ELSE InitialStores

\* A writer that does not stop at a schema version it does not know.
WriterOpenAnyVersion ==
    /\ wpc = "open"
    /\ LET S == upgrade_db(user_version, store)
       IN  /\ event' = S.event
           /\ event_ref' = S.event_ref
           /\ pubkey_ref' = S.pubkey_ref
    /\ user_version' = IF user_version > 2 THEN user_version ELSE 2
    /\ wpc' = "top"
    /\ UNCHANGED <<wev, wres, qres, ingest, hub, shutdown, connVars, queries>>

\* upgrade_db(&mut conn) in db_writer.
WriterOpen ==
    /\ wpc = "open"
    /\ IF user_version > 2
       THEN /\ wpc' = "failed"
            /\ UNCHANGED storeVars
       ELSE /\ LET S == upgrade_db(user_version, store)
               IN  /\ event' = S.event
                   /\ event_ref' = S.event_ref
                   /\ pubkey_ref' = S.pubkey_ref
            /\ user_version' = 2
            /\ wpc' = "top"
    /\ UNCHANGED <<wev, wres, qres, ingest, hub, shutdown, connVars, queries>>

InitOpen ==
    /\ \E v \in 0..MaxVersion : \E S \in OpenStores(v) :
          /\ user_version = v
          /\ event = S.event
          /\ event_ref = S.event_ref
          /\ pubkey_ref = S.pubkey_ref
    /\ wpc = "open"
    /\ wev = 0
    /\ wres = 0
    /\ qres = NoQuery
    /\ ingest = << >>
    /\ hub = << >>
    /\ shutdown = FALSE
    /\ cpc = [c \in Conns |-> "none"]
    /\ cev = [c \in Conns |-> 0]
    /\ subs = [c \in Conns |-> EmptyMap]
    /\ running_queries = [c \in Conns |-> EmptyMap]
    /\ cursor = [c \in Conns |-> 0]
    /\ lagged = [c \in Conns |-> FALSE]
    /\ sd_rx = [c \in Conns |-> FALSE]
    /\ query_rx = [c \in Conns |-> << >>]
    /\ out = [c \in Conns |-> << >>]
    /\ queries = << >>
    /\ frames = MaxFrames
    /\ sres = NoCall

NextOpen ==
    \/ WriterOpen
    \/ WriterCheckShutdown
    \/ WriterWrite
    \/ WriterWriteError
    \/ WriterSend
    \/ SendShutdown
    \/ \E i \in StoreEvents : Ingest(i)

SpecOpen == InitOpen /\ [][NextOpen]_vars

----------------------------------------------------------------------------
\* db_query: one worker for each successful REQ.  The position of a worker
\* is "open" (before its statement reads the store), "next" (before
\* event_rows.next() and the poll of abandon_query_rx), "send" (in
\* query_tx.blocking_send) or "done".  cancel is the state of its oneshot
\* channel: "open", "sent" (the signal was sent) or "closed" (the sender was
\* dropped without a signal).  after counts the rows the worker has put on
\* the result channel since its signal was sent, and start the responses
\* its connection had sent when the worker was started.

Query(c, s) ==
    [conn |-> c, sub_id |-> s.id, filters |-> s.filters, pc |-> "open",
     rows |-> << >>, cur |-> 0, cancel |-> "open", after |-> 0,
     start |-> Len(out[c])]

QueryIds == 1..Len(queries)

\* The statement reads its rows from the store as it is at this moment.
QueryOpen(q) ==
    /\ queries[q].pc = "open"
    /\ \E rows \in QueryResults(store, queries[q].filters) :
          queries' = [queries EXCEPT ![q].rows = rows, ![q].pc = "next"]
    /\ UNCHANGED <<storeVars, writerVars, qres, ingest, hub, shutdown,
                   connVars>>

\* A worker that never polls abandon_query_rx.
QueryNextNoPoll(q) ==
    /\ queries[q].pc = "next"
    /\ queries' =
          IF queries[q].rows = << >>
          THEN [queries EXCEPT ![q].pc = "done"]
          ELSE [queries EXCEPT ![q].cur = Head(queries[q].rows),
                               ![q].rows = Tail(queries[q].rows),
                               ![q].pc = "send"]
    /\ UNCHANGED <<storeVars, writerVars, qres, ingest, hub, shutdown,
                   connVars>>

\* event_rows.next() and abandon_query_rx.try_recv().
QueryNext(q) ==
    /\ queries[q].pc = "next"
    /\ queries' =
          IF queries[q].rows = << >>
          THEN [queries EXCEPT ![q].pc = "done"]
          ELSE IF queries[q].cancel = "sent"
          THEN [queries EXCEPT ![q].rows = << >>, ![q].pc = "done"]
          ELSE [queries EXCEPT ![q].cur = Head(queries[q].rows),
                               ![q].rows = Tail(queries[q].rows),
                               ![q].pc = "send"]
    /\ UNCHANGED <<storeVars, writerVars, qres, ingest, hub, shutdown,
                   connVars>>

\* query_tx.blocking_send: waits while the result channel is full and fails,
\* ignored, when the connection task has dropped query_rx.
QuerySend(q) ==
    LET c == queries[q].conn
    IN  /\ queries[q].pc = "send"
        /\ \/ /\ cpc[c] # "exited"
              /\ Len(query_rx[c]) < query_buffer
              /\ query_rx' = [query_rx EXCEPT ![c] =
                    Append(@, [sub_id |-> queries[q].sub_id,
                               event |-> queries[q].cur])]
              /\ queries' = [queries EXCEPT
                    ![q].pc = "next", ![q].cur = 0,
                    ![q].after = IF queries[q].cancel = "sent"
                                 THEN @ + 1 ELSE @]
           \/ /\ cpc[c] = "exited"
              /\ queries' = [queries EXCEPT ![q].pc = "next", ![q].cur = 0]
              /\ UNCHANGED query_rx
        /\ UNCHANGED <<storeVars, writerVars, qres, ingest, hub, shutdown,
                       cpc, cev, subs, running_queries, cursor, lagged,
                       sd_rx, sres, out, frames>>

----------------------------------------------------------------------------
\* nostr_server: the task of one connection.  Its position is "none" (not
\* yet spawned), "loop" (waiting in select!), "wait" (waiting in a select!
\* whose branch bcast_rx.recv() is disabled), "send" (suspended in
\* event_tx.send) or "exited".

InLoop(c) == cpc[c] \in {"loop", "wait"}

\* The task is back at the top of its loop, in a new select!.
Looped(c) == [cpc EXCEPT ![c] = "loop"]

EventResponse(sub_id, e, via) ==
    [type |-> "EVENT", sub_id |-> sub_id, event |-> e, via |-> via]
Notice(msg) ==
    [type |-> "NOTICE", sub_id |-> 0, event |-> 0, via |-> msg]

Range(m) == {m[x] : x \in DOMAIN m}

\* oneshot::Sender::send: the signal reaches a worker that is still running.
Signal(qs, ids) ==
    [q \in 1..Len(qs) |->
        IF q \in ids /\ qs[q].pc # "done" /\ qs[q].cancel = "open"
        THEN [qs[q] EXCEPT !.cancel = "sent"]
        ELSE qs[q]]

\* A oneshot::Sender dropped without a signal.
DropSender(qs, ids) ==
    [q \in 1..Len(qs) |->
        IF q \in ids /\ qs[q].cancel = "open"
        THEN [qs[q] EXCEPT !.cancel = "closed"]
        ELSE qs[q]]

\* handle_web_request subscribes the task to the shutdown signal and
\* nostr_server subscribes it to the hub.
ConnStart(c) ==
    /\ cpc[c] = "none"
    /\ cpc' = [cpc EXCEPT ![c] = "loop"]
    /\ cursor' = [cursor EXCEPT ![c] = Len(hub)]
    /\ sd_rx' = [sd_rx EXCEPT ![c] = ~shutdown]
    /\ UNCHANGED <<storeVars, writerVars, qres, ingest, hub, shutdown, cev,
                   subs, running_queries, lagged, sres, query_rx, out, queries,
                   frames>>

\* The task leaves its loop: the connection cleanup and the drop of the
\* task's state.
Exit(c) ==
    /\ cpc' = [cpc EXCEPT ![c] = "exited"]
    /\ queries' = Signal(queries, Range(running_queries[c]))
    /\ running_queries' = [running_queries EXCEPT ![c] = EmptyMap]
    /\ subs' = [subs EXCEPT ![c] = EmptyMap]
    /\ query_rx' = [query_rx EXCEPT ![c] = << >>]
    /\ UNCHANGED <<storeVars, writerVars, qres, ingest, hub, shutdown, cev,
                   cursor, lagged, sd_rx, sres, out, frames>>

\* shutdown.recv()
ConnShutdown(c) ==
    /\ InLoop(c)
    /\ shutdown /\ sd_rx[c]
    /\ Exit(c)

\* Tasks that take their query results only while no task is suspended.
ConnQueryResultShared(c) ==
    /\ InLoop(c)
    /\ \A d \in Conns : cpc[d] # "send"
    /\ cpc' = Looped(c)
    /\ query_rx[c] # << >>
    /\ out' = [out EXCEPT ![c] =
          Append(@, EventResponse(Head(query_rx[c]).sub_id,
                                  Head(query_rx[c]).event, "query"))]
    /\ query_rx' = [query_rx EXCEPT ![c] = Tail(@)]
    /\ UNCHANGED <<storeVars, writerVars, qres, ingest, hub, shutdown,
                   cev, subs, running_queries, cursor, lagged, sd_rx, sres,
                   queries, frames>>

\* query_rx.recv(): a query result is sent to the client.
ConnQueryResult(c) ==
    /\ InLoop(c)
    /\ cpc' = Looped(c)
    /\ query_rx[c] # << >>
    /\ out' = [out EXCEPT ![c] =
          Append(@, EventResponse(Head(query_rx[c]).sub_id,
                                  Head(query_rx[c]).event, "query"))]
    /\ query_rx' = [query_rx EXCEPT ![c] = Tail(@)]
    /\ UNCHANGED <<storeVars, writerVars, qres, ingest, hub, shutdown,
                   cev, subs, running_queries, cursor, lagged, sd_rx, sres,
                   queries, frames>>

\* bcast_rx.recv() returns an event: one response for each matching
\* subscription, in the order of the iteration over the HashMap.
ConnBroadcast(c) ==
    /\ cpc[c] = "loop"
    /\ cursor[c] < Len(hub)
    /\ Len(hub) - cursor[c] <= broadcast_buffer
    /\ LET e == hub[cursor[c] + 1]
       IN  \E order \in Perms(get_matching_subscriptions(subs[c], Ev(e))) :
              out' = [out EXCEPT ![c] =
                 @ \o [k \in 1..Len(order) |->
                          EventResponse(order[k], e, "live")]]
    /\ cursor' = [cursor EXCEPT ![c] = @ + 1]
    /\ UNCHANGED <<storeVars, writerVars, qres, ingest, hub, shutdown, cpc,
                   cev, subs, running_queries, lagged, sd_rx, sres, query_rx,
                   queries, frames>>

\* bcast_rx.recv() returns Lagged: the receiver skips to the oldest event
\* the hub still holds.  The result does not match the pattern Ok(_) of the
\* branch, which select! disables until another branch completes.
ConnLagged(c) ==
    /\ cpc[c] = "loop"
    /\ Len(hub) - cursor[c] > broadcast_buffer
    /\ cursor' = [cursor EXCEPT ![c] = Len(hub) - broadcast_buffer]
    /\ lagged' = [lagged EXCEPT ![c] = TRUE]
    /\ cpc' = [cpc EXCEPT ![c] = "wait"]
    /\ UNCHANGED <<storeVars, writerVars, qres, ingest, hub, shutdown,
                   cev, subs, running_queries, sd_rx, sres, query_rx, out,
                   queries, frames>>

\* NostrMessage::Event: event_tx.send(e).await sends at once, suspends the
\* task while the ingest channel is full, or fails when the writer is gone.
ConnEvent(c, i) ==
    /\ InLoop(c)
    /\ IF wpc = "done"
       THEN cpc' = Looped(c) /\ UNCHANGED <<ingest, cev, frames>>
       ELSE /\ frames > 0
            /\ frames' = frames - 1
            /\ IF Len(ingest) < event_persist_buffer
               THEN /\ ingest' = Append(ingest, i)
                    /\ cpc' = Looped(c)
                    /\ UNCHANGED cev
               ELSE /\ cpc' = [cpc EXCEPT ![c] = "send"]
                    /\ cev' = [cev EXCEPT ![c] = i]
                    /\ UNCHANGED ingest
    /\ UNCHANGED <<storeVars, writerVars, qres, hub, shutdown, subs,
                   running_queries, cursor, lagged, sd_rx, sres, query_rx, out,
                   queries>>

\* A send that completes only when the channel has room, also after the
\* writer has dropped the receiver.
ConnSendResumeRoomOnly(c) ==
    /\ cpc[c] = "send"
    /\ wpc # "done"
    /\ Len(ingest) < event_persist_buffer
    /\ ingest' = Append(ingest, cev[c])
    /\ cpc' = [cpc EXCEPT ![c] = "loop"]
    /\ UNCHANGED cev
    /\ UNCHANGED <<storeVars, writerVars, qres, hub, shutdown, subs,
                   running_queries, cursor, lagged, sd_rx, sres, query_rx, out,
                   queries, frames>>

\* The suspended event_tx.send completes.
ConnSendResume(c) ==
    /\ cpc[c] = "send"
    /\ \/ wpc = "done" /\ UNCHANGED ingest
       \/ /\ wpc # "done"
          /\ Len(ingest) < event_persist_buffer
          /\ ingest' = Append(ingest, cev[c])
    /\ cpc' = [cpc EXCEPT ![c] = "loop"]
    /\ UNCHANGED cev
    /\ UNCHANGED <<storeVars, writerVars, qres, hub, shutdown, subs,
                   running_queries, cursor, lagged, sd_rx, sres, query_rx, out,
                   queries, frames>>

\* A task that keeps the cancellation handle and starts the query before it
\* looks at the result of subscribe.
ConnReqInsertFirst(c, s) ==
    /\ InLoop(c)
    /\ cpc' = Looped(c)
    /\ frames > 0
    /\ frames' = frames - 1
    /\ LET r == subscribe(subs[c], s)
           old == IF s.id \in DOMAIN running_queries[c]
                  THEN {running_queries[c][s.id]} ELSE {}
       IN  /\ subs' = [subs EXCEPT ![c] = r.subs]
           /\ running_queries' = [running_queries EXCEPT ![c] =
                 Put(@, s.id, Len(queries) + 1)]
           /\ queries' = Append(DropSender(queries, old), Query(c, s))
           /\ out' = IF r.res = "Ok" THEN out
                     ELSE [out EXCEPT ![c] = Append(@, Notice(r.res))]
    /\ UNCHANGED <<storeVars, writerVars, qres, ingest, hub, shutdown,
                   cev, cursor, lagged, sd_rx, sres, query_rx>>

\* A task that signals the query of the earlier REQ for the sub_id.
ConnReqCancelOld(c, s) ==
    /\ InLoop(c)
    /\ cpc' = Looped(c)
    /\ frames > 0
    /\ frames' = frames - 1
    /\ LET r == subscribe(subs[c], s)
           old == IF s.id \in DOMAIN running_queries[c]
                  THEN {running_queries[c][s.id]} ELSE {}
       IN  IF r.res = "Ok"
           THEN /\ subs' = [subs EXCEPT ![c] = r.subs]
                /\ running_queries' = [running_queries EXCEPT ![c] =
                      Put(@, s.id, Len(queries) + 1)]
                /\ queries' = Append(Signal(queries, old), Query(c, s))
                /\ UNCHANGED out
           ELSE /\ out' = [out EXCEPT ![c] = Append(@, Notice(r.res))]
                /\ UNCHANGED <<subs, running_queries, queries>>
    /\ UNCHANGED <<storeVars, writerVars, qres, ingest, hub, shutdown,
                   cev, cursor, lagged, sd_rx, sres, query_rx>>

\* NostrMessage::Req
ConnReq(c, s) ==
    /\ InLoop(c)
    /\ cpc' = Looped(c)
    /\ frames > 0
    /\ frames' = frames - 1
    /\ LET r == subscribe(subs[c], s)
           old == IF s.id \in DOMAIN running_queries[c]
                  THEN {running_queries[c][s.id]} ELSE {}
       IN  IF r.res = "Ok"
           THEN /\ subs' = [subs EXCEPT ![c] = r.subs]
                /\ running_queries' = [running_queries EXCEPT ![c] =
                      Put(@, s.id, Len(queries) + 1)]
                /\ queries' = Append(DropSender(queries, old), Query(c, s))
                /\ UNCHANGED out
           ELSE /\ out' = [out EXCEPT ![c] = Append(@, Notice(r.res))]
                /\ UNCHANGED <<subs, running_queries, queries>>
    /\ UNCHANGED <<storeVars, writerVars, qres, ingest, hub, shutdown,
                   cev, cursor, lagged, sd_rx, sres, query_rx>>

\* A task that signals the query of a CLOSE and keeps the subscription.
ConnCloseKeepSubscription(c, id) ==
    /\ InLoop(c)
    /\ cpc' = Looped(c)
    /\ frames > 0
    /\ frames' = frames - 1
    /\ queries' = IF id \in DOMAIN running_queries[c]
                  THEN Signal(queries, {running_queries[c][id]})
                  ELSE queries
    /\ running_queries' = [running_queries EXCEPT ![c] = Remove(@, id)]
    /\ UNCHANGED <<storeVars, writerVars, qres, ingest, hub, shutdown,
                   cev, cursor, lagged, sd_rx, sres, query_rx, out, subs>>

\* A task that signals the query of a CLOSE and keeps its handle.
ConnCloseKeepHandle(c, id) ==
    /\ InLoop(c)
    /\ cpc' = Looped(c)
    /\ frames > 0
    /\ frames' = frames - 1
    /\ queries' = IF id \in DOMAIN running_queries[c]
                  THEN Signal(queries, {running_queries[c][id]})
                  ELSE queries
    /\ subs' = [subs EXCEPT ![c] = unsubscribe(@, id)]
    /\ UNCHANGED <<storeVars, writerVars, qres, ingest, hub, shutdown,
                   cev, cursor, lagged, sd_rx, sres, query_rx, out,
                   running_queries>>

\* NostrMessage::Close
ConnClose(c, id) ==
    /\ InLoop(c)
    /\ cpc' = Looped(c)
    /\ frames > 0
    /\ frames' = frames - 1
    /\ queries' = IF id \in DOMAIN running_queries[c]
                  THEN Signal(queries, {running_queries[c][id]})
                  ELSE queries
    /\ running_queries' = [running_queries EXCEPT ![c] = Remove(@, id)]
    /\ subs' = [subs EXCEPT ![c] = unsubscribe(@, id)]
    /\ UNCHANGED <<storeVars, writerVars, qres, ingest, hub, shutdown,
                   cev, cursor, lagged, sd_rx, sres, query_rx, out>>

\* The stream ends (None) or fails (Error::ConnError).
ConnDisconnect(c) ==
    /\ InLoop(c)
    /\ Exit(c)

\* A task that treats an oversize frame as it treats Error::ConnError.
ConnOversizeDisconnect(c) ==
    /\ InLoop(c)
    /\ frames > 0
    /\ frames' = frames - 1
    /\ out' = [out EXCEPT ![c] = Append(@, Notice("event exceeded max size"))]
    /\ cpc' = [cpc EXCEPT ![c] = "exited"]
    /\ queries' = Signal(queries, Range(running_queries[c]))
    /\ running_queries' = [running_queries EXCEPT ![c] = EmptyMap]
    /\ subs' = [subs EXCEPT ![c] = EmptyMap]
    /\ query_rx' = [query_rx EXCEPT ![c] = << >>]
    /\ UNCHANGED <<storeVars, writerVars, qres, ingest, hub, shutdown, cev,
                   cursor, lagged, sd_rx, sres>>

\* Error::EventMaxLengthError
ConnOversize(c) ==
    /\ InLoop(c)
    /\ cpc' = Looped(c)
    /\ frames > 0
    /\ frames' = frames - 1
    /\ out' = [out EXCEPT ![c] = Append(@, Notice("event exceeded max size"))]
    /\ UNCHANGED <<storeVars, writerVars, qres, ingest, hub, shutdown,
                   cev, subs, running_queries, cursor, lagged, sd_rx, sres,
                   query_rx, queries>>

\* Any other error of the stream is logged, and the loop goes on.
ConnOtherError(c) ==
    /\ InLoop(c)
    /\ cpc' = Looped(c)
    /\ UNCHANGED frames
    /\ UNCHANGED <<storeVars, writerVars, qres, ingest, hub, shutdown,
                   cev, subs, running_queries, cursor, lagged, sd_rx, sres,
                   query_rx, out, queries>>

----------------------------------------------------------------------------
\* The relay: the writer, the query workers and the connection tasks.

Next ==
    \/ WriterCheckShutdown
    \/ WriterWrite
    \/ WriterWriteError
    \/ WriterSend
    \/ SendShutdown
    \/ \E q \in QueryIds : QueryOpen(q)
    \/ \E q \in QueryIds : QueryNext(q)
    \/ \E q \in QueryIds : QuerySend(q)
    \/ \E c \in Conns : ConnStart(c)
    \/ \E c \in Conns : ConnShutdown(c)
    \/ \E c \in Conns : ConnQueryResult(c)
    \/ \E c \in Conns : ConnBroadcast(c)
    \/ \E c \in Conns : ConnLagged(c)
    \/ \E c \in Conns, i \in Events : ConnEvent(c, i)
    \/ \E c \in Conns : ConnSendResume(c)
    \/ \E c \in Conns, s \in ReqSubscriptions : ConnReq(c, s)
    \/ \E c \in Conns, id \in ReqSubIds : ConnClose(c, id)
    \/ \E c \in Conns : ConnDisconnect(c)
    \/ \E c \in Conns : ConnOversize(c)
    \/ \E c \in Conns : ConnOtherError(c)

Spec == Init /\ [][Next]_vars

\* The blocking workers and the tasks are scheduled fairly: the writer and
\* every query worker take their next step when they can, and a connection
\* task that can resume a suspended send, take a query result, receive the
\* shutdown signal or take what the hub holds for it does so (select!
\* chooses among its ready branches at random).
Worker(q) ==
    q \in QueryIds /\ (QueryOpen(q) \/ QueryNext(q) \/ QuerySend(q))

FairSpec ==
    /\ Spec
    /\ WF_vars(Writer)
    /\ \A q \in 1..MaxFrames : WF_vars(Worker(q))
    /\ \A c \in Conns : WF_vars(ConnSendResume(c))
    /\ \A c \in Conns : WF_vars(ConnQueryResult(c))
    /\ \A c \in Conns : WF_vars(ConnShutdown(c))
    /\ \A c \in Conns : WF_vars(ConnBroadcast(c) \/ ConnLagged(c))

----------------------------------------------------------------------------
\* The frames of one connection of a relay with a new, empty store: its
\* REQ, CLOSE and oversize frames, with as many subscription ids as it takes
\* to reach max_subs, and the query workers that its REQs start.  No event
\* is submitted, so that no query finds a row.

FrameConn == CHOOSE c \in Conns : TRUE
FrameSubscriptions ==
    {Subscription(id, <<FilterTable[1]>>) : id \in (1..NumSubIds) \cup {LongSubId}}

InitFrames ==
    /\ event = EmptyStore.event
    /\ event_ref = EmptyStore.event_ref
    /\ pubkey_ref = EmptyStore.pubkey_ref
    /\ user_version = 2
    /\ wpc = "top"
    /\ wev = 0
    /\ wres = 0
    /\ qres = NoQuery
    /\ ingest = << >>
    /\ hub = << >>
    /\ shutdown = FALSE
    /\ cpc = [c \in Conns |-> "none"]
    /\ cev = [c \in Conns |-> 0]
    /\ subs = [c \in Conns |-> EmptyMap]
    /\ running_queries = [c \in Conns |-> EmptyMap]
    /\ cursor = [c \in Conns |-> 0]
    /\ lagged = [c \in Conns |-> FALSE]
    /\ sd_rx = [c \in Conns |-> FALSE]
    /\ query_rx = [c \in Conns |-> << >>]
    /\ out = [c \in Conns |-> << >>]
    /\ queries = << >>
    /\ frames = MaxReqFrames
    /\ sres = NoCall

NextFrames ==
    \/ ConnStart(FrameConn)
    \/ \E q \in QueryIds : QueryOpen(q)
    \/ \E q \in QueryIds : QueryNext(q)
    \/ \E s \in FrameSubscriptions : ConnReq(FrameConn, s)
    \/ \E id \in 1..NumSubIds : ConnClose(FrameConn, id)
    \/ ConnOversize(FrameConn)

SpecFrames == InitFrames /\ [][NextFrames]_vars

----------------------------------------------------------------------------
\* The relay in its steady state: the connections are established and none
\* of them ends, no shutdown is requested and no write fails.

InitLive ==
    /\ \E S \in InitialStores :
          /\ event = S.event
          /\ event_ref = S.event_ref
          /\ pubkey_ref = S.pubkey_ref
    /\ user_version = 2
    /\ wpc = "top"
    /\ wev = 0
    /\ wres = 0
    /\ qres = NoQuery
    /\ ingest = << >>
    /\ hub = << >>
    /\ shutdown = FALSE
    /\ cpc = [c \in Conns |-> "loop"]
    /\ cev = [c \in Conns |-> 0]
    /\ subs = [c \in Conns |-> EmptyMap]
    /\ running_queries = [c \in Conns |-> EmptyMap]
    /\ cursor = [c \in Conns |-> 0]
    /\ lagged = [c \in Conns |-> FALSE]
    /\ sd_rx = [c \in Conns |-> TRUE]
    /\ query_rx = [c \in Conns |-> << >>]
    /\ out = [c \in Conns |-> << >>]
    /\ queries = << >>
    /\ frames = MaxLiveFrames
    /\ sres = NoCall

NextLive ==
    \/ WriterCheckShutdown
    \/ WriterWrite
    \/ WriterSend
    \/ \E q \in QueryIds : QueryOpen(q)
    \/ \E q \in QueryIds : QueryNext(q)
    \/ \E q \in QueryIds : QuerySend(q)
    \/ \E c \in Conns : ConnQueryResult(c)
    \/ \E c \in Conns : ConnBroadcast(c)
    \/ \E c \in Conns : ConnLagged(c)
    \/ \E c \in Conns, i \in Events : ConnEvent(c, i)
    \/ \E c \in Conns : ConnSendResume(c)
    \/ \E c \in Conns, s \in LiveSubscriptions : ConnReq(c, s)
    \/ \E c \in Conns, id \in LiveSubIds : ConnClose(c, id)

SpecLive == InitLive /\ [][NextLive]_vars

----------------------------------------------------------------------------
\* The claims about the store (SpecStore).

RowOf(id) == CHOOSE i \in 1..Len(event) : event[i].event_hash = id

Replaceable(a, k) ==
    {i \in 1..Len(event) : event[i].author = a /\ event[i].kind = k}

\* C1: for every (author, kind) with kind in {0, 3} at most one stored event
\* has hidden = FALSE, and that event has the greatest created_at among the
\* stored events of the pair, whatever the order of the writes.
C1_ReplaceableInvariant ==
    \A i \in 1..Len(event) :
        event[i].kind \in {0, 3} /\ ~event[i].hidden =>
            \A j \in Replaceable(event[i].author, event[i].kind) :
                /\ event[j].created_at <= event[i].created_at
                /\ j # i => event[j].hidden

\* C28: for every author and replaceable kind with a stored event, some
\* stored event of the pair with the greatest created_at of the pair is not
\* hidden.
C28_NewestVisible ==
    \A i \in 1..Len(event) :
        event[i].kind \in {0, 3} =>
            \E j \in Replaceable(event[i].author, event[i].kind) :
                /\ ~event[j].hidden
                /\ \A k \in Replaceable(event[i].author, event[i].kind) :
                      event[k].created_at <= event[j].created_at

\* M2 was written before M1, and the metadata event with the created_at of
\* M2 after M2, which it has hidden.
C28_Witness ==
    /\ HasEvent(store, 1) /\ HasEvent(store, 2) /\ HasEvent(store, 5)
    /\ RowOf(2) < RowOf(1)
    /\ RowOf(2) < RowOf(5)
    /\ event[RowOf(2)].hidden
    /\ ~event[RowOf(5)].hidden

\* C2: a query returns no hidden event unless a filter of the subscription
\* names the event in its ids field.
C2_HiddenOnlyById ==
    \A k \in 1..Len(qres.rows) :
        event[RowOf(qres.rows[k])].hidden =>
            \E n \in 1..Len(qres.filters) :
                \E l \in qres.filters[n].ids : qres.rows[k] \in l

\* C3: a write_event of an event whose id is already stored reports a
\* duplicate (count 0) and leaves the three tables as they are.
C3_DuplicateKeepsStore ==
    [][(vars' # vars /\ wev' # 0 /\ HasEvent(store, wev'))
          => (wres' = 0 /\ UNCHANGED storeVars)]_vars

\* A duplicate of a stored replaceable event that has tags was reported.
C3_Witness ==
    /\ wev # 0
    /\ wres = 0
    /\ HasEvent(store, wev)
    /\ Ev(wev).kind \in {0, 3}
    /\ Ev(wev).ptags # << >>

\* The value of a list field once the values that fail the hex check are
\* dropped and a list left empty is skipped.
Surviving(field) == {Escaped(l) : l \in field} \ {{}}

Skipped(f) ==
    [f EXCEPT !.authors = Surviving(@), !.ids = Surviving(@),
              !.events = Surviving(@), !.pubkeys = Surviving(@)]

\* C13: the result of a query is the result of the query whose filters are
\* without the list fields that no value of passes the hex check: no clause
\* is emitted for such a field, and a filter left without a clause selects
\* the events that are not hidden.
C13_EmptyListSkipped ==
    qres # NoQuery =>
        qres.rows \in QueryResults(store,
            [k \in 1..Len(qres.filters) |-> Skipped(qres.filters[k])])

AllAbsent(filters) == \A k \in 1..Len(filters) : NoComponents(filters[k])

\* C14: the query of a subscription whose filters all have every field
\* absent returns only events with hidden = FALSE, whatever the store:
\* written in any order, or upgraded from schema version 1.
C14_AllAbsentOnlyVisible ==
    qres # NoQuery /\ AllAbsent(qres.filters) =>
        \A k \in 1..Len(qres.rows) : event[RowOf(qres.rows[k])].hidden = FALSE

\* A store that holds a hidden event was queried with a filter that has
\* every field absent, and the query returned an event.
C14_Witness ==
    /\ qres # NoQuery
    /\ AllAbsent(qres.filters)
    /\ qres.rows # << >>
    /\ \E i \in 1..Len(event) : event[i].hidden = TRUE

\* C15: every event a query returns matches the subscription as the live
\* matching defines it: it satisfies every present field of one of the
\* filters, since and until being exclusive bounds.
C15_ResultsMatch ==
    \A k \in 1..Len(qres.rows) :
        interested_in_event(qres.filters, Ev(qres.rows[k]))

\* A store that holds events with created_at 1 and 2 was queried with a
\* filter with since = until and a filter on the tags: the query returned
\* the one event the second filter matches.
C15_Witness ==
    /\ qres.filters = <<FilterTable[5], FilterTable[4]>>
    /\ qres.rows = <<4>>
    /\ \E i \in 1..Len(event) : event[i].created_at = 2

\* C16: a query produces no event twice, and produces its events in
\* non-decreasing order of created_at.
C16_DistinctAscending ==
    /\ \A j, k \in 1..Len(qres.rows) : j # k => qres.rows[j] # qres.rows[k]
    /\ \A j, k \in 1..Len(qres.rows) :
          j < k => Ev(qres.rows[j]).created_at <= Ev(qres.rows[k]).created_at

\* A query returned an event that has several rows in the join and that
\* two filters of the subscription match, after an event with a smaller
\* created_at or before one with a greater created_at.
C16_Witness ==
    /\ Len(qres.filters) = 2
    /\ \E k \in 1..Len(qres.rows) :
          LET i == RowOf(qres.rows[k])
          IN  /\ Cardinality(Joined(store, i)) > 1
              /\ \A n \in 1..2 : \E j \in Joined(store, i) :
                    FilterClause(qres.filters[n], event[i],
                                 Referenced(event_ref, j[1]),
                                 Referenced(pubkey_ref, j[2]))
    /\ \E j, k \in 1..Len(qres.rows) :
          Ev(qres.rows[j]).created_at < Ev(qres.rows[k]).created_at

----------------------------------------------------------------------------
\* The claims about the connection state (SpecConn).

\* C10: the number of registered subscriptions of a connection never
\* exceeds max_subs.
C10_SubscriptionLimit ==
    \A c \in Conns : Cardinality(DOMAIN subs[c]) <= max_subs

\* The connection holds max_subs subscriptions.
C10_Witness == Cardinality(DOMAIN subs[1]) = max_subs

\* A step of the connection-level specification that is a subscribe call.
SubscribeCall == vars' # vars /\ sres'.res # "none"

\* C11: subscribe fails with SubIdMaxLengthError exactly when the sub_id is
\* longer than MAX_SUBSCRIPTION_ID_LEN (whatever the other conditions), with
\* SubMaxExceededError exactly when the sub_id is short enough, is not
\* registered and max_subs subscriptions are registered; a subscribe that
\* fails leaves the subscriptions as they are.
C11_SubscribeErrors ==
    [][SubscribeCall =>
          /\ sres'.res = "SubIdMaxLengthError"
                <=> SubIdLen(sres'.id) > MAX_SUBSCRIPTION_ID_LEN
          /\ sres'.res = "SubMaxExceededError"
                <=> /\ SubIdLen(sres'.id) <= MAX_SUBSCRIPTION_ID_LEN
                    /\ sres'.id \notin DOMAIN subs[1]
                    /\ Cardinality(DOMAIN subs[1]) = max_subs
          /\ sres'.res # "Ok" => UNCHANGED subs
      ]_vars

\* An id of MAX_SUBSCRIPTION_ID_LEN bytes is registered, and with max_subs
\* subscriptions registered an id one byte longer was rejected for its
\* length.
C11_Witness ==
    /\ MaxLenSubId \in DOMAIN subs[1]
    /\ SubIdLen(MaxLenSubId) = MAX_SUBSCRIPTION_ID_LEN
    /\ Cardinality(DOMAIN subs[1]) = max_subs
    /\ sres.id = LongSubId
    /\ sres.res = "SubIdMaxLengthError"

\* C12: a subscribe with a registered sub_id succeeds, also with max_subs
\* subscriptions registered, keeps the set of registered ids, and from then
\* on the sub_id matches exactly the events its new filters match.
C12_Resubscribe ==
    [][(SubscribeCall /\ sres'.id \in DOMAIN subs[1]) =>
          /\ sres'.res = "Ok"
          /\ DOMAIN subs'[1] = DOMAIN subs[1]
          /\ \A id \in DOMAIN subs[1] \ {sres'.id} : subs'[1][id] = subs[1][id]
          /\ \A i \in 1..Len(EventTable) :
                sres'.id \in get_matching_subscriptions(subs'[1], Ev(i))
                    <=> interested_in_event(sres'.filters, Ev(i))
      ]_vars

\* With max_subs subscriptions registered, one of them was replaced by
\* filters that match other events than the filters it had.
C12_Witness ==
    /\ Cardinality(DOMAIN subs[1]) = max_subs
    /\ sres.res = "Ok"
    /\ sres.known
    /\ sres.id \in DOMAIN subs[1]
    /\ subs[1][sres.id] = <<FilterTable[2]>>
    /\ \E id \in DOMAIN subs[1] : subs[1][id] = <<FilterTable[1]>>

----------------------------------------------------------------------------
\* The claims about the writer (SpecWriter, FairSpecWriter).

\* C17: a write_event that fails, at its first statement or part-way,
\* leaves the three tables as they were and publishes nothing, and the
\* writer is back at the top of its loop; no event is on the hub that is not
\* stored.
C17_FailedWriteLeavesNothing ==
    /\ [][(wpc = "recv" /\ wres' < 0) =>
             /\ UNCHANGED storeVars
             /\ UNCHANGED hub
             /\ wpc' = "top"]_vars
    /\ [](\A k \in 1..Len(hub) : HasEvent(store, hub[k]))
    /\ [](wres < 0 => wpc = "top")

\* The write of an event with tags has failed after its row and a
\* reference row were inserted: the event is not stored, no reference row
\* is left, and the next event waits on the ingest channel.
C17_Witness ==
    /\ wres < -2
    /\ Ev(wev).etags # << >> \/ Ev(wev).ptags # << >>
    /\ ~HasEvent(store, wev)
    /\ event_ref = << >> /\ pubkey_ref = << >>
    /\ wpc = "top"
    /\ ingest # << >>

----------------------------------------------------------------------------
\* The claims about the relay (Spec, SpecLive).

Stored(id) == HasEvent(store, id)

\* C4: every event on the hub is committed in the store, no event id is on
\* the hub twice, and the writer is about to send only an event that its
\* write_event has just inserted: never a duplicate.
C4_PublishedOnceAfterCommit ==
    /\ \A k \in 1..Len(hub) : Stored(hub[k])
    /\ \A j, k \in 1..Len(hub) : j # k => hub[j] # hub[k]
    /\ wpc = "send" => wres = 1 /\ Stored(wev) /\ ~InSeq(wev, hub)

\* The writer has found an event to be a duplicate that it published
\* earlier in this run.
C4_Witness == wev # 0 /\ wres = 0 /\ InSeq(wev, hub)

\* The live EVENT responses a step adds to the output of a connection.
Added(c) == SubSeq(out'[c], Len(out[c]) + 1, Len(out'[c]))

\* C6: when a connection task takes an event from the hub it sends one
\* EVENT response for each subscription that is registered and matches the
\* event, and nothing else; no step sends a live EVENT under a sub_id that
\* is not registered.
C6_LiveFanout ==
    [][\A c \in Conns :
          /\ (/\ cpc[c] = "loop"
              /\ cursor'[c] = cursor[c] + 1
              /\ Len(hub) - cursor[c] <= broadcast_buffer)
             => LET e == hub[cursor[c] + 1]
                    matching == {id \in DOMAIN subs[c] :
                                    interested_in_event(subs[c][id], Ev(e))}
                IN  /\ Len(Added(c)) = Cardinality(matching)
                    /\ \A id \in matching :
                          InSeq(EventResponse(id, e, "live"), Added(c))
          /\ \A k \in 1..Len(Added(c)) :
                Added(c)[k].via = "live" => Added(c)[k].sub_id \in DOMAIN subs[c]
      ]_vars

\* A connection with two subscriptions has sent a live EVENT under the one
\* that matches and none under the other.
C6_Witness ==
    \E c \in Conns : \E s1, s2 \in DOMAIN subs[c] : \E i \in Events :
        /\ s1 # s2
        /\ cursor[c] = Len(hub)
        /\ hub # << >>
        /\ hub[Len(hub)] = i
        /\ ~interested_in_event(subs[c][s2], Ev(i))
        /\ out[c] # << >>
        /\ out[c][Len(out[c])] = EventResponse(s1, i, "live")

\* C7: while a sub_id is not registered on a connection (after its CLOSE,
\* until a new REQ), no EVENT response with that sub_id is sent.
C7_NoEventAfterClose ==
    [][\A c \in Conns : \A k \in 1..Len(Added(c)) :
          Added(c)[k].type = "EVENT" =>
              Added(c)[k].sub_id \in DOMAIN subs[c] \cup DOMAIN subs'[c]
      ]_vars

C20_HubNeverBlocksLagRecovers ==
    /\ (wpc = "send") ~> (wpc = "top")
    /\ [][\A c \in Conns :
             (lagged'[c] /\ ~lagged[c]) =>
                 /\ cursor'[c] = Len(hub) - broadcast_buffer
                 /\ cursor'[c] > cursor[c]
                 /\ InLoop(c)']_vars
    /\ \A c \in Conns :
          (InLoop(c) /\ cursor[c] < Len(hub))
              ~> (cursor[c] = Len(hub) \/ cpc[c] = "exited")

\* C9: when a connection task has left its loop, every query it started
\* that is still running has been sent the cancellation signal.
C9_ExitCancelsQueries ==
    \A q \in QueryIds :
        cpc[queries[q].conn] = "exited" /\ queries[q].pc # "done"
            => queries[q].cancel = "sent"

\* The queries the latest REQ of a registered subscription started.
QueryOf(c, s) == running_queries[c][s]

\* The connection has sent the event under the sub_id since the latest REQ.
Delivered(c, s, id) ==
    \E k \in (queries[QueryOf(c, s)].start + 1)..Len(out[c]) :
        /\ out[c][k].type = "EVENT"
        /\ out[c][k].sub_id = s
        /\ out[c][k].event = id

\* Nothing is on its way to the subscription: its query has completed, the
\* result channel is empty, the connection has taken every event of the hub
\* without lagging, and the writer has sent what it has committed.
Settled(c, s) ==
    /\ cpc[c] = "loop"
    /\ s \in DOMAIN subs[c]
    /\ ~lagged[c]
    /\ queries[QueryOf(c, s)].pc = "done"
    /\ query_rx[c] = << >>
    /\ cursor[c] = Len(hub)
    /\ wpc # "send"

Cancelled(q) ==
    IF q \in QueryIds THEN queries[q].cancel = "sent" ELSE FALSE
Terminated(q) ==
    IF q \in QueryIds THEN queries[q].pc = "done" ELSE FALSE

C8_CancelStopsWorker ==
    /\ [](\A q \in QueryIds : queries[q].after <= 1)
    /\ \A q \in 1..MaxFrames : Cancelled(q) ~> Terminated(q)

\* A cancelled worker has put its one further row on the channel and has
\* terminated with rows left unread.
C8_Witness ==
    \E q \in QueryIds :
        /\ queries[q].cancel = "sent"
        /\ queries[q].after = 1
        /\ queries[q].pc = "done"

----------------------------------------------------------------------------
\* The claims about the frames a connection task handles (Spec).

Oversize == Notice("event exceeded max size")

\* C21: a task that handles an oversize frame sends the NOTICE "event
\* exceeded max size" once and nothing else, is back in its loop, keeps its
\* subscriptions and its cancellation handles, starts and signals no query
\* and puts nothing on the ingest channel.
C21_OversizeNotice ==
    [][\A c \in Conns :
          /\ ConnOversize(c) => Added(c) = <<Oversize>>
          /\ InSeq(Oversize, Added(c)) =>
                /\ Added(c) = <<Oversize>>
                /\ cpc'[c] = "loop"
                /\ subs'[c] = subs[c]
                /\ running_queries'[c] = running_queries[c]
                /\ UNCHANGED <<ingest, cev, queries>>
      ]_vars

\* A connection with a subscription and a cancellation handle has answered
\* an oversize frame and is in its loop.
C21_Witness ==
    \E c \in Conns :
        /\ cpc[c] = "loop"
        /\ subs[c] # EmptyMap
        /\ DOMAIN running_queries[c] = DOMAIN subs[c]
        /\ out[c] # << >>
        /\ out[c][Len(out[c])] = Oversize

\* The NOTICE responses of a REQ that subscribe rejects.
Rejections == {Notice("SubIdMaxLengthError"), Notice("SubMaxExceededError")}

\* C22: a REQ that subscribe rejects adds one NOTICE with the error to the
\* responses of its connection and nothing else, starts no query, and
\* leaves the subscriptions and the cancellation handles as they were; and
\* no other step sends such a NOTICE.
C22_RejectedReq ==
    [][\A c \in Conns :
          /\ \A s \in FrameSubscriptions :
                (ConnReq(c, s) /\ subscribe(subs[c], s).res # "Ok")
                    => Added(c) = <<Notice(subscribe(subs[c], s).res)>>
          /\ (\E k \in 1..Len(Added(c)) : Added(c)[k] \in Rejections) =>
                /\ Len(Added(c)) = 1
                /\ UNCHANGED <<subs, running_queries, queries>>
      ]_vars

\* A connection with max_subs subscriptions has had a REQ rejected for the
\* length of its id and one for the number of subscriptions.
C22_Witness ==
    \E c \in Conns :
        /\ Cardinality(DOMAIN subs[c]) = max_subs
        /\ DOMAIN running_queries[c] = DOMAIN subs[c]
        /\ Len(queries) = max_subs
        /\ \A n \in Rejections : InSeq(n, out[c])

\* The query of an earlier REQ whose sub_id a later REQ has taken over.
Replaced(q) ==
    IF q \in QueryIds THEN queries[q].cancel = "closed" ELSE FALSE

\* C23: a query is signalled only by a step that ends its subscription,
\* never by a REQ; a REQ for a registered sub_id starts a new query and
\* leaves the query of the earlier REQ as it is; the earlier query
\* is never signalled afterwards, ends only when it has read all its rows,
\* and puts each row on the result channel under its sub_id; the task sends
\* every result it takes from the channel under the sub_id of the result;
\* and under fair scheduling the earlier query runs to its end.
C23_DuplicateReqKeepsQuery ==
    /\ [][\A q \in QueryIds :
            LET c == queries[q].conn
                new == queries'[Len(queries')]
            IN  /\ (queries[q].cancel # "sent" /\ queries'[q].cancel = "sent")
                     => queries[q].sub_id \notin DOMAIN subs'[c]
                /\ (queries[q].cancel = "open" /\ queries'[q].cancel = "closed")
                     => /\ queries'[q] = [queries[q] EXCEPT !.cancel = "closed"]
                        /\ Len(queries') = Len(queries) + 1
                        /\ new.conn = c
                        /\ new.sub_id = queries[q].sub_id
                        /\ new.pc = "open"
                        /\ running_queries'[c][new.sub_id] = Len(queries')
                /\ queries[q].cancel = "closed" => queries'[q].cancel = "closed"
                /\ (/\ queries[q].cancel = "closed"
                    /\ queries[q].pc # "done"
                    /\ queries'[q].pc = "done") => queries[q].rows = << >>
                /\ (/\ queries[q].cancel = "closed"
                    /\ queries[q].pc = "send"
                    /\ queries'[q].pc = "next"
                    /\ cpc[c] # "exited")
                     => query_rx'[c] =
                           Append(query_rx[c], [sub_id |-> queries[q].sub_id,
                                                event |-> queries[q].cur])
       ]_vars
    /\ [][\A c \in Conns :
            (Len(query_rx'[c]) < Len(query_rx[c]) /\ cpc'[c] # "exited")
                => Added(c) = <<EventResponse(Head(query_rx[c]).sub_id,
                                              Head(query_rx[c]).event, "query")>>
       ]_vars
    /\ \A q \in 1..MaxFrames : Replaced(q) ~> Terminated(q)

\* Two REQs for one sub_id: both queries have run to their end and the
\* client has received the row of each under the sub_id.
C23_Witness ==
    \E c \in Conns : \E q1, q2 \in QueryIds : \E s \in DOMAIN subs[c] :
        /\ q1 < q2
        /\ queries[q1].conn = c /\ queries[q2].conn = c
        /\ queries[q1].sub_id = s /\ queries[q2].sub_id = s
        /\ queries[q1].cancel = "closed"
        /\ queries[q1].pc = "done" /\ queries[q2].pc = "done"
        /\ Len(out[c]) = 2
        /\ \A k \in 1..2 : out[c][k].via = "query" /\ out[c][k].sub_id = s

----------------------------------------------------------------------------
\* The claims about the order and the number of deliveries (SpecLive).

\* The positions of the live EVENT responses of a connection.
Live(c) == {k \in 1..Len(out[c]) : out[c][k].via = "live"}

IngestBlocked(c) ==
    cpc[c] = "send" /\ Len(ingest) = event_persist_buffer /\ wpc # "done"

\* The worker waits in blocking_send on the full result channel.
ResultBlocked(q) ==
    /\ queries[q].pc = "send"
    /\ cpc[queries[q].conn] # "exited"
    /\ Len(query_rx[queries[q].conn]) = query_buffer

\* Some task other than d, or a worker of another connection, is blocked.
BlockedBeside(d) ==
    \/ \E c \in Conns \ {d} : IngestBlocked(c)
    \/ \E q \in QueryIds : queries[q].conn # d /\ ResultBlocked(q)

AcceptedSubIds == {id \in 1..LongSubId : SubIdLen(id) <= MAX_SUBSCRIPTION_ID_LEN}

\* C26: a CLOSE sends nothing.  For a sub_id that is not registered it
\* leaves the subscriptions, the cancellation handles and the queries as
\* they are.  For a registered sub_id it removes that subscription and its
\* handle and no other, signals the query of the handle if it still runs,
\* leaves every other query alone, and a REQ with any new id of accepted
\* length is then accepted.  No step but a CLOSE or the end of the task
\* removes a subscription.
C26_Close ==
    [][\A c \in Conns :
          /\ \A id \in 1..NumSubIds :
                ConnClose(c, id) =>
                    /\ Added(c) = << >>
                    /\ query_rx'[c] = query_rx[c]
                    /\ id \notin DOMAIN subs[c] =>
                          UNCHANGED <<subs, running_queries, queries>>
                    /\ id \in DOMAIN subs[c] =>
                          LET h == running_queries[c][id]
                          IN  /\ DOMAIN subs'[c] = DOMAIN subs[c] \ {id}
                              /\ \A x \in DOMAIN subs'[c] :
                                    subs'[c][x] = subs[c][x]
                              /\ DOMAIN running_queries'[c] =
                                    DOMAIN running_queries[c] \ {id}
                              /\ \A x \in DOMAIN running_queries'[c] :
                                    running_queries'[c][x] = running_queries[c][x]
                              /\ Len(queries') = Len(queries)
                              /\ \A q \in QueryIds \ {h} : queries'[q] = queries[q]
                              /\ queries'[h] =
                                    IF queries[h].pc # "done"
                                    THEN [queries[h] EXCEPT !.cancel = "sent"]
                                    ELSE queries[h]
                              /\ \A new \in AcceptedSubIds \ DOMAIN subs'[c] :
                                    \A s \in FrameSubscriptions :
                                        s.id = new =>
                                            subscribe(subs'[c], s).res = "Ok"
          /\ (DOMAIN subs[c] \ DOMAIN subs'[c] # {} /\ cpc'[c] # "exited")
                => \E id \in 1..NumSubIds : ConnClose(c, id)
      ]_vars

\* A connection with max_subs subscriptions has closed one, which signalled
\* its query, and a REQ with a new id has then been accepted.
C26_Witness ==
    \E c \in Conns : \E q \in QueryIds :
        /\ Cardinality(DOMAIN subs[c]) = max_subs
        /\ DOMAIN running_queries[c] = DOMAIN subs[c]
        /\ Len(queries) = max_subs + 1
        /\ q <= max_subs
        /\ queries[q].cancel = "sent"
        /\ queries[q].sub_id \notin DOMAIN subs[c]
        /\ running_queries[c][queries[Len(queries)].sub_id] = Len(queries)
        /\ out[c] = << >>

----------------------------------------------------------------------------
\* The claim about the start of the writer (SpecOpen).

\* C27: upgrade_db leaves a store of schema version 0, 1 or 2 at version 2
\* and the writer at the top of its loop: a new store is empty, a store of
\* version 1 keeps its rows and each of them has hidden = FALSE, a store of
\* version 2 is unchanged.  At a greater version the writer fails and the
\* store and its version stay as they were, for good.  Until upgrade_db has
\* returned no step changes the store or sends on the hub, and a writer in
\* its loop has a store of version 2.
C27_UpgradeBeforeWrites ==
    /\ [][(wpc = "open" /\ wpc' # "open") =>
            IF user_version > 2
            THEN wpc' = "failed" /\ UNCHANGED storeVars
            ELSE /\ wpc' = "top"
                 /\ user_version' = 2
                 /\ user_version = 0 => store' = EmptyStore
                 /\ user_version = 1 =>
                       /\ Len(event') = Len(event)
                       /\ \A i \in 1..Len(event) :
                             /\ event'[i].hidden = FALSE
                             /\ event'[i] = [event[i] EXCEPT !.hidden = FALSE]
                       /\ UNCHANGED <<event_ref, pubkey_ref>>
                 /\ user_version = 2 =>
                       UNCHANGED <<event, event_ref, pubkey_ref>>
       ]_vars
    /\ [][(wpc = "open" /\ wpc' = "open") => UNCHANGED <<storeVars, hub>>]_vars
    /\ [][wpc = "failed" => UNCHANGED <<storeVars, hub, wpc>>]_vars
    /\ [](wpc \notin {"open", "failed"} => user_version = 2)
    /\ [](wpc = "failed" => user_version > 2)

\* The writer has upgraded a store of version 1 and has then written an
\* event that was waiting on the ingest channel.
C27_Witness ==
    /\ wpc \in {"top", "send"}
    /\ user_version = 2
    /\ Len(event) = Len(V1Store.event) + 1
    /\ \A i \in 1..Len(V1Store.event) :
          /\ event[i].event_hash = V1Store.event[i].event_hash
          /\ event[i].hidden \in BOOLEAN
    /\ wres = 1

\* C30: while a task is in its loop the sub_ids with a cancellation handle
\* are the registered sub_ids.  A step adds an id to both maps or to none
\* and removes an id from both or from none; a step that sends the NOTICE
\* of a rejected REQ and a step in which a query ends change neither map.
C30_HandlesMatchSubscriptions ==
    /\ [](\A c \in Conns :
            InLoop(c) => DOMAIN running_queries[c] = DOMAIN subs[c])
    /\ [][\A c \in Conns :
            /\ DOMAIN running_queries'[c] \ DOMAIN running_queries[c]
                  = DOMAIN subs'[c] \ DOMAIN subs[c]
            /\ DOMAIN running_queries[c] \ DOMAIN running_queries'[c]
                  = DOMAIN subs[c] \ DOMAIN subs'[c]
            /\ (\E k \in 1..Len(Added(c)) : Added(c)[k] \in Rejections)
                  => UNCHANGED <<subs, running_queries>>
            /\ \A q \in QueryIds :
                  (/\ queries[q].conn = c
                   /\ queries[q].pc # "done"
                   /\ queries'[q].pc = "done")
                      => UNCHANGED <<subs, running_queries>>
       ]_vars

\* A task in its loop still holds the handle of a registered subscription
\* whose query has ended after it delivered a row, and has had a REQ
\* rejected.
C30_Witness ==
    \E c \in Conns : \E s \in DOMAIN subs[c] :
        /\ InLoop(c)
        /\ s \in DOMAIN running_queries[c]
        /\ queries[running_queries[c][s]].pc = "done"
        /\ \E k \in 1..Len(out[c]) : out[c][k].via = "query"
        /\ \E k \in 1..Len(out[c]) : out[c][k] \in Rejections

\* The REQs a connection has handled for a sub_id: each started one query.
Reqs(c, s) == {q \in QueryIds : queries[q].conn = c /\ queries[q].sub_id = s}

\* C29: while a subscription is registered for which its connection has
\* handled one REQ, no two EVENT responses of the connection under its
\* sub_id carry the same event.
C29_AtMostOnce ==
    \A c \in Conns : \A s \in DOMAIN subs[c] :
        Cardinality(Reqs(c, s)) = 1 =>
            \A j, k \in 1..Len(out[c]) :
                (/\ j < k
                 /\ out[c][j].type = "EVENT" /\ out[c][k].type = "EVENT"
                 /\ out[c][j].sub_id = s /\ out[c][k].sub_id = s)
                    => out[c][j].event # out[c][k].event

----------------------------------------------------------------------------
\* The claim about a send on the full ingest channel (FairSpec).

\* C31: under fair scheduling a task suspended in event_tx.send is resumed.
\* While it is suspended the writer or the send itself can take a step; it
\* is resumed into its loop, with its event put on the channel if the
\* writer still runs and with the channel as it was if the writer has
\* ended.
C31_SuspendedSendResumes ==
    /\ \A c \in Conns : (cpc[c] = "send") ~> (cpc[c] = "loop")
    /\ [](\A c \in Conns :
            cpc[c] = "send" => (ENABLED Writer \/ ENABLED ConnSendResume(c)))
    /\ [][\A c \in Conns :
            (cpc[c] = "send" /\ cpc'[c] # "send") =>
                /\ cpc'[c] = "loop"
                /\ ingest' = IF wpc = "done" THEN ingest
                             ELSE Append(ingest, cev[c])
       ]_vars

\* A task that was suspended with an event is back in its loop and the
\* event is on the ingest channel, after the writer has taken the event
\* that filled the channel.
C31_Witness ==
    \E c \in Conns :
        /\ cpc[c] = "loop"
        /\ cev[c] # 0
        /\ ingest = <<cev[c]>>
        /\ wev # 0

====
